---- MODULE Spec2Model ----
(***************************************************************************)
(* FightLight: the project state data model (hlc_core/models.py), the web  *)
(* routes that load, change and save it (hlc_ui/app.py) and the JSON       *)
(* persistence helpers (hlc_cli/main.py, hlc_ui/app.py).                   *)
(*                                                                         *)
(* Seconds are modelled as integers.  An Optional value is a sequence of   *)
(* length 0 (None) or 1.  A raised exception is modelled as None where a   *)
(* constructor would have returned a value.                                *)
(***************************************************************************)
EXTENDS Integers, Sequences, FiniteSets, Bags, TLC

VARIABLES
    project,   \* the in-memory ProjectState object (model layer)
    disk,      \* project_state.json: None (no file) or Some(JSON document)
    result,    \* what the last operation returned / responded
    before,    \* the state the last operation started from
    inflight   \* the web requests being handled, each with its loaded object

vars == <<project, disk, result, before, inflight>>

(***************************************************************************)
(* Bounds of the model.                                                    *)
(***************************************************************************)
MaxHighlights == 2
MaxTime == 4

None == <<>>
Some(x) == <<x>>

(***************************************************************************)
(* Input alphabets.                                                        *)
(***************************************************************************)
Ids == {"", "a", "b"}
IdInputs == Ids \cup {"missing"}
TimeInputs == {-5, 0, 10, 12, 20}
PathInputs == {"v1.mp4", "v2.mp4"}

(***************************************************************************)
(* TimeRange                                                               *)
(***************************************************************************)
\* start: float = Field(ge=0); end: float = Field(gt=0)
TimeRangeFieldsOK(start, end) == start >= 0 /\ end > 0

\* plausible bug: the ordering check compares with < and lets end = start pass
TimeRangePostInitOK_NonStrict(start, end) == ~(end < start)

\* model_post_init: raise ValueError if end <= start
TimeRangePostInitOK(start, end) == ~(end <= start)

\* TimeRange(start=..., end=...): Some(range), or None when construction raises
TimeRange(start, end) ==
    IF TimeRangeFieldsOK(start, end) /\ TimeRangePostInitOK(start, end)
    THEN Some([start |-> start, end |-> end])
    ELSE None

(***************************************************************************)
(* VideoFile, Highlight                                                    *)
(***************************************************************************)
VideoFile(path) ==
    [path |-> path, duration |-> None, fps |-> None, width |-> None, height |-> None]

Highlight(id, name, start, end) ==
    [id |-> id, name |-> name, time_range |-> TimeRange(start, end)[1],
     description |-> None, tags |-> <<>>]

\* highlights a caller can hand to add_highlight (constructed, hence valid)
HighlightInputs ==
    { Highlight("a", "Jab", 10, 20),
      Highlight("a", "Hook", 10, 12),
      Highlight("b", "Cross", 0, 10),
      Highlight("", "Feint", 12, 20) }

(***************************************************************************)
(* ProjectState                                                            *)
(***************************************************************************)
ProjectState(name) ==
    [project_name |-> name, video_file |-> None, highlights |-> <<>>,
     selected_highlight_id |-> None, export_settings |-> <<>>]

\* Python truthiness of an Optional[str]: None and "" are both falsy
Truthy(opt) == opt # None /\ opt[1] # ""

\* index of the first highlight with this id, 0 when there is none
FirstIndex(hs, id) ==
    IF \E i \in 1..Len(hs) : hs[i].id = id
    THEN CHOOSE i \in 1..Len(hs) :
            hs[i].id = id /\ \A j \in 1..(i - 1) : hs[j].id # id
    ELSE 0

get_selected_highlight(p) ==
    IF ~Truthy(p.selected_highlight_id)
    THEN None
    ELSE LET i == FirstIndex(p.highlights, p.selected_highlight_id[1])
         IN  IF i = 0 THEN None ELSE Some(p.highlights[i])

\* plausible bug: the new highlight is inserted at the front
add_highlight_Prepend(p, h) == [p EXCEPT !.highlights = <<h>> \o @]

add_highlight(p, h) == [p EXCEPT !.highlights = Append(@, h)]

RemoveAt(hs, i) == SubSeq(hs, 1, i - 1) \o SubSeq(hs, i + 1, Len(hs))

\* plausible bug: the selection is not cleared when the selected one is removed
remove_highlight_KeepSelection(p, id) ==
    LET i == FirstIndex(p.highlights, id)
    IN  IF i = 0
        THEN [state |-> p, ret |-> FALSE]
        ELSE [state |-> [p EXCEPT !.highlights = RemoveAt(@, i)], ret |-> TRUE]

\* plausible bug: a miss still clears the selection
remove_highlight_MissClears(p, id) ==
    LET i == FirstIndex(p.highlights, id)
    IN  IF i = 0
        THEN [state |-> [p EXCEPT !.selected_highlight_id = None], ret |-> FALSE]
        ELSE [state |-> [p EXCEPT !.highlights = RemoveAt(@, i),
                                  !.selected_highlight_id =
                                      IF @ = Some(id) THEN None ELSE @],
              ret |-> TRUE]

remove_highlight(p, id) ==
    LET i == FirstIndex(p.highlights, id)
    IN  IF i = 0
        THEN [state |-> p, ret |-> FALSE]
        ELSE [state |-> [p EXCEPT !.highlights = RemoveAt(@, i),
                                  !.selected_highlight_id =
                                      IF @ = Some(id) THEN None ELSE @],
              ret |-> TRUE]

(***************************************************************************)
(* Model-layer operations on the in-memory object (as the tests use it).   *)
(***************************************************************************)
NoResult == [op |-> "none"]

Init ==
    /\ project = ProjectState("Test Project")
    /\ disk = None
    /\ result = NoResult
    /\ before = ProjectState("Test Project")
    /\ inflight = <<>>

NewTimeRange(s, e) ==
    /\ result' = [op |-> "TimeRange", start |-> s, end |-> e, ret |-> TimeRange(s, e)]
    /\ before' = project
    /\ UNCHANGED inflight
    /\ UNCHANGED <<project, disk>>

AddHighlight(h) ==
    /\ Len(project.highlights) < MaxHighlights
    /\ project' = add_highlight(project, h)
    /\ result' = [op |-> "add_highlight", arg |-> h, raised |-> FALSE]
    /\ before' = project
    /\ UNCHANGED inflight
    /\ UNCHANGED disk

RemoveHighlight(id) ==
    /\ project' = remove_highlight(project, id).state
    /\ result' = [op |-> "remove_highlight", arg |-> id,
                  ret |-> remove_highlight(project, id).ret]
    /\ before' = project
    /\ UNCHANGED inflight
    /\ UNCHANGED disk

\* project.selected_highlight_id = value (plain attribute assignment)
AssignSelected(v) ==
    /\ project' = [project EXCEPT !.selected_highlight_id = v]
    /\ result' = [op |-> "assign_selected", arg |-> v, raised |-> FALSE]
    /\ before' = project
    /\ UNCHANGED inflight
    /\ UNCHANGED disk

\* project.video_file = VideoFile(path=...)
SetVideo(path) ==
    /\ project' = [project EXCEPT !.video_file = Some(VideoFile(path))]
    /\ result' = [op |-> "set_video", arg |-> path]
    /\ before' = project
    /\ UNCHANGED inflight
    /\ UNCHANGED disk

GetSelected ==
    /\ result' = [op |-> "get_selected_highlight", ret |-> get_selected_highlight(project)]
    /\ before' = project
    /\ UNCHANGED inflight
    /\ UNCHANGED <<project, disk>>

Next ==
    \/ \E s \in TimeInputs, e \in TimeInputs : NewTimeRange(s, e)
    \/ \E h \in HighlightInputs : AddHighlight(h)
    \/ \E id \in IdInputs : RemoveHighlight(id)
    \/ \E v \in {None} \cup {Some(id) : id \in IdInputs} : AssignSelected(v)
    \/ \E path \in PathInputs : SetVideo(path)
    \/ GetSelected

Spec == Init /\ [][Next]_vars

(***************************************************************************)
(* Persistence: model_dump + json.dump, json.load + model_validate.        *)
(* export_settings is a Python dict: a sequence of <<key, value>> pairs    *)
(* with distinct keys, in insertion order.  A key is [kind, text]: the     *)
(* Python type of the key and its printed form.                            *)
(***************************************************************************)
StrKey(s) == [kind |-> "str", text |-> s]
IntKey(s) == [kind |-> "int", text |-> s]

\* state.model_dump(): the nested dict with the fields' names
model_dump(p) ==
    [project_name |-> p.project_name,
     video_file |-> p.video_file,
     highlights |-> p.highlights,
     selected_highlight_id |-> p.selected_highlight_id,
     export_settings |-> p.export_settings]

\* json.dump writes every object key as a string: str(key) for an int key
JsonKey(k) == [kind |-> "str", text |-> k.text]

json_dump(d) ==
    [d EXCEPT !.export_settings =
        [i \in 1..Len(@) |-> <<JsonKey(@[i][1]), @[i][2]>>]]

\* json.load builds a dict from the pairs of an object: a repeated key keeps
\* its first position and takes the last value
RECURSIVE DictFromPairs(_)
DictFromPairs(ps) ==
    IF ps = <<>>
    THEN <<>>
    ELSE LET init == DictFromPairs(SubSeq(ps, 1, Len(ps) - 1))
             last == ps[Len(ps)]
         IN  IF \E i \in 1..Len(init) : init[i][1] = last[1]
             THEN [i \in 1..Len(init) |->
                      IF init[i][1] = last[1] THEN last ELSE init[i]]
             ELSE Append(init, last)

json_load(doc) == [doc EXCEPT !.export_settings = DictFromPairs(@)]

\* ProjectState.model_validate(data): every nested TimeRange is constructed
\* again; any failure fails the whole validation (None)
model_validate(data) ==
    IF \A i \in 1..Len(data.highlights) :
           TimeRange(data.highlights[i].time_range.start,
                     data.highlights[i].time_range.end) # None
    THEN Some([project_name |-> data.project_name,
               video_file |-> data.video_file,
               highlights |-> data.highlights,
               selected_highlight_id |-> data.selected_highlight_id,
               export_settings |-> data.export_settings])
    ELSE None

\* load_project_state(): None when the file is absent or cannot be validated
load_project_state(file) ==
    IF file = None THEN None ELSE model_validate(json_load(file[1]))

\* save_project_state(state): the new content of the file
save_project_state(state) == Some(json_dump(model_dump(state)))

(***************************************************************************)
(* The length of the text json.dump(..., indent=2) writes, in characters   *)
(* (the documents are ASCII, so also in bytes).  A number of seconds is a  *)
(* Python float and is written with one decimal ("1.0").                   *)
(***************************************************************************)
RECURSIVE Digits(_)
Digits(n) == IF n < 10 THEN 1 ELSE 1 + Digits(n \div 10)

IntText(n) == IF n < 0 THEN 1 + Digits(-n) ELSE Digits(n)

FloatText(x) == IntText(x) + 2

\* a string without characters that need escaping, in its quotes
StrText(s) == Len(s) + 2

\* null
NullText == 4

OptStrText(o) == IF o = None THEN NullText ELSE StrText(o[1])

OptIntText(o) == IF o = None THEN NullText ELSE IntText(o[1])

OptFloatText(o) == IF o = None THEN NullText ELSE FloatText(o[1])

RECURSIVE SumSeq(_)
SumSeq(s) == IF s = <<>> THEN 0 ELSE Head(s) + SumSeq(Tail(s))

\* a member line of an object: k spaces, "key", colon and space, the value
Member(k, key, value) == k + StrText(key) + 2 + value

\* an object or array whose closing bracket is indented by k and whose
\* lines (indent included) have the given lengths: {} or [] when empty,
\* otherwise bracket, newline, the lines joined by comma and newline,
\* newline, k spaces, bracket
Block(k, lines) ==
    IF lines = <<>>
    THEN 2
    ELSE 2 + SumSeq(lines) + 2 * (Len(lines) - 1) + 2 + k

TimeRangeText(k, r) ==
    Block(k, <<Member(k + 2, "start", FloatText(r.start)),
               Member(k + 2, "end", FloatText(r.end))>>)

HighlightText(k, h) ==
    Block(k, <<Member(k + 2, "id", StrText(h.id)),
               Member(k + 2, "name", StrText(h.name)),
               Member(k + 2, "time_range", TimeRangeText(k + 2, h.time_range)),
               Member(k + 2, "description", OptStrText(h.description)),
               Member(k + 2, "tags",
                      Block(k + 2, [i \in 1..Len(h.tags) |->
                                       k + 4 + StrText(h.tags[i])]))>>)

VideoFileText(k, v) ==
    Block(k, <<Member(k + 2, "path", StrText(v.path)),
               Member(k + 2, "duration", OptFloatText(v.duration)),
               Member(k + 2, "fps", OptFloatText(v.fps)),
               Member(k + 2, "width", OptIntText(v.width)),
               Member(k + 2, "height", OptIntText(v.height))>>)

\* the length of the text of a document
json_size(d) ==
    Block(0, <<Member(2, "project_name", StrText(d.project_name)),
               Member(2, "video_file",
                      IF d.video_file = None
                      THEN NullText
                      ELSE VideoFileText(2, d.video_file[1])),
               Member(2, "highlights",
                      Block(2, [i \in 1..Len(d.highlights) |->
                                   4 + HighlightText(4, d.highlights[i])])),
               Member(2, "selected_highlight_id", OptStrText(d.selected_highlight_id)),
               Member(2, "export_settings",
                      Block(2, [i \in 1..Len(d.export_settings) |->
                                   Member(4, d.export_settings[i][1].text,
                                          StrText(d.export_settings[i][2]))]))>>)

\* the file after a text of `size` characters holding `doc` is written from
\* position 0 over a file that holds `length` characters: the new text
\* alone when it covers the old one, otherwise the new text followed by the
\* rest of the old one, which json.load refuses (None)
WriteOver(doc, size, length) ==
    IF size >= length
    THEN [doc |-> Some(doc), length |-> size]
    ELSE [doc |-> None, length |-> length]

(***************************************************************************)
(* The web routes of hlc_ui/app.py.  Each request loads the file, changes  *)
(* the loaded object and saves it.  A request value that is absent from    *)
(* the JSON body is None.                                                  *)
(***************************************************************************)
Offsets == {-2}
DefaultOffset == 1

Response(op, args, status, text) ==
    [op |-> op, args |-> args, status |-> status, text |-> text]

\* the highlights of a persisted document, none when there is no file
DocHighlights(file) == IF file = None THEN <<>> ELSE file[1].highlights

\* plausible bug: the routes that create a project on demand never look at
\* the file
LoadOrNew_AlwaysNew(file) == ProjectState("New Project")

\* project = load_project_state(); if not project: ProjectState("New Project")
LoadOrNew(file) ==
    IF load_project_state(file) = None
    THEN ProjectState("New Project")
    ELSE load_project_state(file)[1]

ImportVideo(path) ==
    /\ before' = disk
    /\ UNCHANGED inflight
    /\ UNCHANGED project
    /\ IF path = None \/ path = Some("")
       THEN /\ result' = Response("/import/video", path, 400, "Video path is required")
            /\ UNCHANGED disk
       ELSE /\ disk' = save_project_state(
                          [LoadOrNew(disk) EXCEPT !.video_file = Some(VideoFile(path[1]))])
            /\ result' = Response("/import/video", path, 200, "Video imported successfully")

\* Highlight.model_validate(highlight_data)
ValidateHighlight(d) ==
    IF TimeRange(d.time_range.start, d.time_range.end) = None
    THEN None
    ELSE Some(Highlight(d.id, d.name, d.time_range.start, d.time_range.end))

\* the loop of import_highlights: the project after the batch, or None when
\* an entry fails validation (the entries before it were added in memory)
\* plausible bug: an invalid entry ends the loop and what was added so far
\* is saved
RECURSIVE ImportLoop_Partial(_, _)
ImportLoop_Partial(p, batch) ==
    IF batch = <<>>
    THEN Some(p)
    ELSE IF ValidateHighlight(Head(batch)) = None
         THEN Some(p)
         ELSE ImportLoop_Partial(add_highlight(p, ValidateHighlight(Head(batch))[1]),
                                 Tail(batch))

RECURSIVE ImportLoop(_, _)
ImportLoop(p, batch) ==
    IF batch = <<>>
    THEN Some(p)
    ELSE IF ValidateHighlight(Head(batch)) = None
         THEN None
         ELSE ImportLoop(add_highlight(p, ValidateHighlight(Head(batch))[1]), Tail(batch))

ImportHighlights(batch) ==
    /\ Len(LoadOrNew(disk).highlights) + Len(batch) <= MaxHighlights
    /\ before' = disk
    /\ UNCHANGED inflight
    /\ UNCHANGED project
    /\ IF ImportLoop(LoadOrNew(disk), batch) = None
       THEN /\ result' = Response("/import/highlights", batch, 400, "Invalid highlight data")
            /\ UNCHANGED disk
       ELSE /\ disk' = save_project_state(ImportLoop(LoadOrNew(disk), batch)[1])
            /\ result' = Response("/import/highlights", batch, 200, "Imported highlights")

Select(id) ==
    /\ before' = disk
    /\ UNCHANGED inflight
    /\ UNCHANGED project
    /\ IF ~Truthy(id)
       THEN /\ result' = Response("/select", id, 400, "highlight_id is required")
            /\ UNCHANGED disk
       ELSE IF load_project_state(disk) = None
       THEN /\ result' = Response("/select", id, 404, "No project loaded")
            /\ UNCHANGED disk
       ELSE IF FirstIndex(load_project_state(disk)[1].highlights, id[1]) = 0
       THEN /\ result' = Response("/select", id, 404, "Highlight not found")
            /\ UNCHANGED disk
       ELSE /\ disk' = save_project_state(
                          [load_project_state(disk)[1] EXCEPT !.selected_highlight_id = id])
            /\ result' = Response("/select", id, 200, "Highlight selected")

\* selected.time_range = r, where selected is the object get_selected_highlight
\* returned: the first highlight with the selected id
SetSelectedRange(p, r) ==
    [p EXCEPT !.highlights[FirstIndex(p.highlights, p.selected_highlight_id[1])].time_range = r]

UpdateRange(start, end) ==
    /\ before' = disk
    /\ UNCHANGED inflight
    /\ UNCHANGED project
    /\ IF start = None \/ end = None
       THEN /\ result' = Response("/update-range", <<start, end>>, 400,
                                  "start and end times are required")
            /\ UNCHANGED disk
       ELSE IF load_project_state(disk) = None
       THEN /\ result' = Response("/update-range", <<start, end>>, 404, "No project loaded")
            /\ UNCHANGED disk
       ELSE IF get_selected_highlight(load_project_state(disk)[1]) = None
       THEN /\ result' = Response("/update-range", <<start, end>>, 400, "No highlight selected")
            /\ UNCHANGED disk
       ELSE IF TimeRange(start[1], end[1]) = None
       THEN /\ result' = Response("/update-range", <<start, end>>, 400, "Invalid time range")
            /\ UNCHANGED disk
       ELSE /\ disk' = save_project_state(
                          SetSelectedRange(load_project_state(disk)[1],
                                           TimeRange(start[1], end[1])[1]))
            /\ result' = Response("/update-range", <<start, end>>, 200, "Time range updated")

Max(a, b) == IF a >= b THEN a ELSE b

\* offset = data.get('offset', 1.0)
NudgeOffset(offset) == IF offset = None THEN DefaultOffset ELSE offset[1]

\* new_start = max(0, selected.time_range.start + offset)
NudgeStart(start, offset) == Max(0, start + offset)

\* new_end = selected.time_range.end + offset
NudgeEnd(end, offset) == end + offset

\* TimeRange(start=new_start, end=new_end) for the selected highlight h
NudgedRange(h, offset) ==
    TimeRange(NudgeStart(h.time_range.start, offset), NudgeEnd(h.time_range.end, offset))

Nudge(offset) ==
    /\ before' = disk
    /\ UNCHANGED inflight
    /\ UNCHANGED project
    /\ IF load_project_state(disk) = None
       THEN /\ result' = Response("/nudge", offset, 404, "No project loaded")
            /\ UNCHANGED disk
       ELSE IF get_selected_highlight(load_project_state(disk)[1]) = None
       THEN /\ result' = Response("/nudge", offset, 400, "No highlight selected")
            /\ UNCHANGED disk
       ELSE LET p == load_project_state(disk)[1]
                r == NudgedRange(get_selected_highlight(p)[1], NudgeOffset(offset))
            IN  IF r = None
                THEN /\ result' = Response("/nudge", offset, 400, "Invalid nudge operation")
                     /\ UNCHANGED disk
                ELSE /\ r[1].end <= MaxTime
                     /\ disk' = save_project_state(SetSelectedRange(p, r[1]))
                     /\ result' = Response("/nudge", offset, 200, "Highlight nudged")

(***************************************************************************)
(* The commands of hlc_cli/main.py that write the file.  Each runs in a    *)
(* process of its own; result.status is the exit code.  In SpecUI          *)
(* inflight is the bag of the `init` processes that wait for the answer to *)
(* their question.                                                         *)
(***************************************************************************)
\* how many `init` processes wait for an answer at once
MaxWaiting == 2

Waiting(name) == SetToBag({[op |-> "init", name |-> name]})

\* fightlight init <name>, up to the question: when no file exists the
\* project is written at once, otherwise typer.confirm asks and waits
CliInit(name) ==
    /\ before' = disk
    /\ UNCHANGED project
    /\ IF disk = None
       THEN /\ disk' = save_project_state(ProjectState(name))
            /\ result' = Response("init", name, 0, "Initialized project")
            /\ UNCHANGED inflight
       ELSE /\ BagCardinality(inflight) < MaxWaiting
            /\ inflight' = inflight (+) Waiting(name)
            /\ result' = [op |-> "init", args |-> name,
                          text |-> "Project state file already exists. Overwrite?"]
            /\ UNCHANGED disk

\* the answer to the typer.confirm of a waiting `init <name>`: no (the
\* default) cancels with exit code 0, yes writes the fresh project over
\* what the file holds by then; the other waiting processes keep waiting
CliInitAnswer(name, overwrite) ==
    /\ BagIn([op |-> "init", name |-> name], inflight)
    /\ before' = disk
    /\ UNCHANGED project
    /\ inflight' = inflight (-) Waiting(name)
    /\ IF ~overwrite
       THEN /\ result' = Response("init", name, 0, "Cancelled")
            /\ UNCHANGED disk
       ELSE /\ disk' = save_project_state(ProjectState(name))
            /\ result' = Response("init", name, 0, "Initialized project")

\* str(Path(path)): a leading "./" is dropped
PathText(path) == IF path = "./v1.mp4" THEN "v1.mp4" ELSE path

\* fightlight import-video <path>; `exists` is video_path.exists()
CliImportVideo(path, exists) ==
    /\ before' = disk
    /\ UNCHANGED inflight
    /\ UNCHANGED project
    /\ IF ~exists
       THEN /\ result' = Response("import-video", path, 1, "Video file not found")
            /\ UNCHANGED disk
       ELSE IF load_project_state(disk) = None
       THEN /\ result' = Response("import-video", path, 1, "No project found")
            /\ UNCHANGED disk
       ELSE /\ disk' = save_project_state(
                          [load_project_state(disk)[1] EXCEPT
                              !.video_file = Some(VideoFile(PathText(path)))])
            /\ result' = Response("import-video", path, 0, "Video imported")

\* str(uuid.uuid4())[:8]: eight hexadecimal digits, any of them
UuidInputs == {"1a2b3c4d", "5e6f7a8b"}

\* fightlight add-highlight <name> <start> <end> [--desc ...]; `id` is the
\* identifier uuid4 produced
CliAddHighlight(id, name, start, end, desc) ==
    /\ Len(DocHighlights(disk)) + 1 <= MaxHighlights
    /\ before' = disk
    /\ UNCHANGED inflight
    /\ UNCHANGED project
    /\ IF load_project_state(disk) = None
       THEN /\ result' = Response("add-highlight", <<name, start, end, desc>>, 1,
                                  "No project found")
            /\ UNCHANGED disk
       ELSE IF TimeRange(start, end) = None
       THEN /\ result' = Response("add-highlight", <<name, start, end, desc>>, 1,
                                  "Error adding highlight")
            /\ UNCHANGED disk
       ELSE /\ disk' = save_project_state(
                          add_highlight(load_project_state(disk)[1],
                                        [Highlight(id, name, start, end) EXCEPT
                                            !.description = desc]))
            /\ result' = Response("add-highlight", <<name, start, end, desc>>, 0,
                                  "Added highlight")

\* request bodies
HighlightData ==
    { [id |-> "a", name |-> "Jab", time_range |-> [start |-> 1, end |-> 3]],
      [id |-> "", name |-> "Feint", time_range |-> [start |-> 1, end |-> 2]],
      [id |-> "b", name |-> "Bad", time_range |-> [start |-> 2, end |-> 1]] }

UpdateInputs ==
    { <<None, Some(2)>>, <<Some(0), None>>, <<Some(0), Some(2)>>,
      <<Some(2), Some(2)>>, <<Some(-1), Some(2)>>, <<Some(1), Some(3)>>,
      <<Some(2), Some(1)>> }

SelectInputs == {None, Some(""), Some("a"), Some("missing")}

BatchInputs ==
    {<<>>} \cup {<<d>> : d \in HighlightData}
           \cup {<<d1, d2>> : d1 \in HighlightData, d2 \in HighlightData}

Opt(S) == {None} \cup {Some(x) : x \in S}

\* project_state.json as the server finds it: absent, or saved from a
\* ProjectState built with the model-layer operations
SavedProjects ==
    { [ProjectState("New Project") EXCEPT !.highlights = hs,
                                          !.selected_highlight_id = sel] :
        hs \in {<<>>, <<Highlight("a", "Jab", 1, 3)>>, <<Highlight("", "Feint", 1, 2)>>},
        sel \in {None, Some(""), Some("a")} }

InitUI ==
    /\ project = ProjectState("Test Project")
    /\ disk \in {None} \cup {save_project_state(p) : p \in SavedProjects}
    /\ result = NoResult
    /\ before = disk
    /\ inflight = <<>>

NextUI ==
    \/ \E path \in {None, Some(""), Some("v1.mp4")} : ImportVideo(path)
    \/ \E batch \in BatchInputs : ImportHighlights(batch)
    \/ \E id \in SelectInputs : Select(id)
    \/ \E r \in UpdateInputs : UpdateRange(r[1], r[2])
    \/ \E d \in Opt(Offsets) : Nudge(d)
    \/ \E name \in {"New Project", "Fight Night"} : CliInit(name)
    \/ \E name \in {"New Project", "Fight Night"}, overwrite \in BOOLEAN :
          CliInitAnswer(name, overwrite)
    \/ \E path \in {"v1.mp4", "./v1.mp4"}, exists \in BOOLEAN :
          CliImportVideo(path, exists)
    \/ \E id \in UuidInputs, r \in {<<1, 3>>, <<2, 1>>}, desc \in Opt({"counter"}) :
          CliAddHighlight(id, "Hook", r[1], r[2], desc)

SpecUI == InitUI /\ [][NextUI]_vars

(***************************************************************************)
(* Claims about the model layer, checked under Spec.                       *)
(***************************************************************************)
IdCount(hs, id) == Cardinality({i \in 1..Len(hs) : hs[i].id = id})

\* C1: whenever selected_highlight_id is set, exactly one highlight in
\* highlights has that id.
C1_SelectionRefersToExactlyOne ==
    project.selected_highlight_id # None
        => IdCount(project.highlights, project.selected_highlight_id[1]) = 1

\* C2: remove_highlight(id) on a project that contains the id removes the
\* first highlight with that id and returns true; a selection equal to id
\* becomes unset, any other selection is left as it was, and afterwards the
\* selection does not refer to the removed id.
C2_RemoveFound ==
    (result.op = "remove_highlight" /\ IdCount(before.highlights, result.arg) > 0)
        => \E i \in 1..Len(before.highlights) :
              /\ before.highlights[i].id = result.arg
              /\ \A j \in 1..(i - 1) : before.highlights[j].id # result.arg
              /\ result.ret = TRUE
              /\ Len(project.highlights) = Len(before.highlights) - 1
              /\ \A j \in 1..(i - 1) : project.highlights[j] = before.highlights[j]
              /\ \A j \in i..Len(project.highlights) :
                     project.highlights[j] = before.highlights[j + 1]
              /\ (before.selected_highlight_id = Some(result.arg)
                     => project.selected_highlight_id = None)
              /\ (before.selected_highlight_id # Some(result.arg)
                     => project.selected_highlight_id = before.selected_highlight_id)
              /\ project.selected_highlight_id # Some(result.arg)

\* the selected highlight was removed while another highlight stays behind
C2_Witness ==
    /\ result.op = "remove_highlight"
    /\ result.ret = TRUE
    /\ before.selected_highlight_id = Some(result.arg)
    /\ Len(before.highlights) = 2
    /\ project.selected_highlight_id = None

\* C3: remove_highlight(id) on a project in which no highlight has that id
\* returns false and leaves every field of the project state unchanged.
C3_RemoveMissing ==
    (result.op = "remove_highlight" /\ IdCount(before.highlights, result.arg) = 0)
        => /\ result.ret = FALSE
           /\ project.project_name = before.project_name
           /\ project.video_file = before.video_file
           /\ project.highlights = before.highlights
           /\ project.selected_highlight_id = before.selected_highlight_id
           /\ project.export_settings = before.export_settings

\* a miss on a project that has highlights, a video and a selection
C3_Witness ==
    /\ result.op = "remove_highlight"
    /\ result.ret = FALSE
    /\ Len(before.highlights) > 0
    /\ before.selected_highlight_id # None
    /\ before.video_file # None

\* C4: constructing a TimeRange succeeds iff start >= 0 and end > start; it
\* fails (no clamping, no object) when start < 0 or end <= start, the
\* zero-length case included; on success the stored start and end are the
\* inputs and end - start > 0.
C4_TimeRangeValidation ==
    result.op = "TimeRange"
        => /\ (result.ret # None) <=> (result.start >= 0 /\ result.end > result.start)
           /\ (result.start < 0 \/ result.end <= result.start) => result.ret = None
           /\ result.ret # None
                 => /\ result.ret[1].start = result.start
                    /\ result.ret[1].end = result.end
                    /\ result.ret[1].end - result.ret[1].start > 0

\* a zero-length range with a positive start was rejected
C4_Witness ==
    /\ result.op = "TimeRange"
    /\ result.start > 0
    /\ result.end = result.start
    /\ result.ret = None

\* C5: get_selected_highlight() returns None whenever selected_highlight_id
\* is unset or no highlight has that id, otherwise the highlight whose id
\* equals selected_highlight_id, for every id a highlight can carry; the
\* project state is left unchanged.
C5_GetSelected ==
    result.op = "get_selected_highlight"
        => /\ project = before
           /\ IF \/ before.selected_highlight_id = None
                 \/ IdCount(before.highlights, before.selected_highlight_id[1]) = 0
              THEN result.ret = None
              ELSE /\ result.ret # None
                   /\ result.ret[1].id = before.selected_highlight_id[1]
                   /\ \E i \in 1..Len(before.highlights) :
                          before.highlights[i] = result.ret[1]

\* C6: add_highlight(h) fails with DuplicateIdError and leaves highlights
\* unchanged when h.id is already present; hence the ids of the highlights
\* of every reachable project are pairwise distinct.
C6_DuplicateIdRejected ==
    /\ (result.op = "add_highlight" /\ IdCount(before.highlights, result.arg.id) > 0)
          => (result.raised /\ project.highlights = before.highlights)
    /\ \A i, j \in 1..Len(project.highlights) :
          project.highlights[i].id = project.highlights[j].id => i = j

(***************************************************************************)
(* Save followed by load, from every valid ProjectState of a bounded set.  *)
(***************************************************************************)
ExportSettingsInputs ==
    { <<>>,
      << <<StrKey("format"), "mp4">> >>,
      << <<IntKey("1"), "x">> >>,
      << <<StrKey("format"), "mp4">>, <<IntKey("1"), "x">> >> }

VideoInputs ==
    { None, Some(VideoFile("v1.mp4")),
      Some([VideoFile("v2.mp4") EXCEPT !.duration = Some(60)]) }

RoundTripInputs ==
    { [project_name |-> "Serialization Test", video_file |-> v, highlights |-> hs,
       selected_highlight_id |-> sel, export_settings |-> es] :
        v \in VideoInputs,
        hs \in {<<>>} \cup {<<h>> : h \in HighlightInputs}
                      \cup {<<h1, h2>> : h1 \in HighlightInputs, h2 \in HighlightInputs},
        sel \in {None, Some("a"), Some("missing")},
        es \in ExportSettingsInputs }

InitRoundTrip ==
    /\ project \in RoundTripInputs
    /\ disk = None
    /\ result = NoResult
    /\ before = project
    /\ inflight = <<>>

SaveProjectState ==
    /\ disk' = save_project_state(project)
    /\ result' = [op |-> "save", ret |-> TRUE]
    /\ before' = project
    /\ UNCHANGED inflight
    /\ UNCHANGED project

LoadProjectState ==
    /\ result' = [op |-> "load", ret |-> load_project_state(disk)]
    /\ before' = project
    /\ UNCHANGED inflight
    /\ UNCHANGED <<project, disk>>

NextRoundTrip == SaveProjectState \/ LoadProjectState

SpecRoundTrip == InitRoundTrip /\ [][NextRoundTrip]_vars

(***************************************************************************)
(* Claims about the web routes, checked under SpecUI.                      *)
(***************************************************************************)
\* C7: select_highlight(id) sets selected_highlight_id to id when a
\* highlight with that id exists; when none has that id it fails and leaves
\* selected_highlight_id and the rest of the persisted state unchanged.
C7_SelectSetsOrFails ==
    (result.op = "/select" /\ result.args # None)
        => IF IdCount(DocHighlights(before), result.args[1]) > 0
           THEN /\ result.status = 200
                /\ disk # None
                /\ disk[1].selected_highlight_id = result.args
           ELSE /\ result.status # 200
                /\ disk = before

\* C8: nudging a highlight with range [s, e] by offset d yields the range
\* [max(0, s + d), e + d] when that range satisfies 0 <= start < end, and
\* otherwise fails with a validation error, the highlight's range and the
\* persisted state unchanged; [10, 20] nudged by -15 becomes [0, 5], and
\* [10, 12] nudged by -15 fails.  The highlight nudged is the selected one:
\* the first highlight of the persisted document that carries the selected
\* id, whatever that id is.
C8_Nudge ==
    /\ NudgedRange([time_range |-> [start |-> 10, end |-> 20]], -15)
           = Some([start |-> 0, end |-> 5])
    /\ NudgedRange([time_range |-> [start |-> 10, end |-> 12]], -15) = None
    /\ (/\ result.op = "/nudge"
        /\ before # None
        /\ before[1].selected_highlight_id # None
        /\ IdCount(before[1].highlights, before[1].selected_highlight_id[1]) > 0)
          => LET p == before[1]
                 d == IF result.args = None THEN DefaultOffset ELSE result.args[1]
             IN  \E i \in 1..Len(p.highlights) :
                    /\ p.highlights[i].id = p.selected_highlight_id[1]
                    /\ \A j \in 1..(i - 1) :
                           p.highlights[j].id # p.selected_highlight_id[1]
                    /\ LET s  == p.highlights[i].time_range.start
                           e  == p.highlights[i].time_range.end
                           ns == IF s + d > 0 THEN s + d ELSE 0
                           ne == e + d
                       IN  IF 0 <= ns /\ ns < ne
                           THEN /\ result.status = 200
                                /\ disk[1].highlights[i].time_range
                                       = [start |-> ns, end |-> ne]
                           ELSE /\ result.status = 400
                                /\ result.text = "Invalid nudge operation"
                                /\ disk = before

\* C9: update_highlight_range(id, new_range) replaces the time range of the
\* highlight with that id in place (position, other fields, other
\* highlights and selection unchanged); it fails, leaving the state
\* unchanged, when no highlight has that id or new_range is invalid.
C9_UpdateRange ==
    (/\ result.op = "/update-range"
     /\ result.args[1] # None
     /\ result.args[2] # None
     /\ before # None
     /\ before[1].selected_highlight_id # None)
        => LET p  == before[1]
               id == p.selected_highlight_id[1]
               s  == result.args[1][1]
               e  == result.args[2][1]
           IN  IF IdCount(p.highlights, id) > 0 /\ s >= 0 /\ e > s
               THEN /\ result.status = 200
                    /\ \E i \in 1..Len(p.highlights) :
                          /\ p.highlights[i].id = id
                          /\ \A j \in 1..(i - 1) : p.highlights[j].id # id
                          /\ disk = Some([p EXCEPT !.highlights[i].time_range =
                                                      [start |-> s, end |-> e]])
               ELSE /\ result.status # 200
                    /\ disk = before

(***************************************************************************)
(* Claims about persistence, checked under SpecRoundTrip.                  *)
(***************************************************************************)
\* Python dict equality: the same keys with the same values, in any order
DictEq(a, b) == {a[i] : i \in 1..Len(a)} = {b[i] : i \in 1..Len(b)}

\* C10: for any valid ProjectState p, deserialize(serialize(p)) succeeds and
\* equals p over all fields, highlight order included: a save followed by a
\* load returns the saved state.
C10_RoundTrip ==
    (result.op = "load" /\ disk # None)
        => /\ result.ret # None
           /\ result.ret[1].project_name = project.project_name
           /\ result.ret[1].video_file = project.video_file
           /\ result.ret[1].highlights = project.highlights
           /\ result.ret[1].selected_highlight_id = project.selected_highlight_id
           /\ DictEq(result.ret[1].export_settings, project.export_settings)

(***************************************************************************)
(* Loading a document that somebody else wrote: any JSON document of the   *)
(* right shape, its invariants kept or not.                                *)
(***************************************************************************)
RawHighlight(id, name, start, end) ==
    [id |-> id, name |-> name, time_range |-> [start |-> start, end |-> end],
     description |-> None, tags |-> <<>>]

RawHighlights ==
    { RawHighlight("a", "Jab", 1, 3),
      RawHighlight("a", "Hook", 0, 2),
      RawHighlight("b", "Inverted", 2, 1),
      RawHighlight("b", "Negative", -1, 2),
      RawHighlight("b", "Empty", 2, 2) }

DocInputs ==
    { [project_name |-> "Fight Night", video_file |-> None, highlights |-> hs,
       selected_highlight_id |-> sel, export_settings |-> <<>>] :
        hs \in {<<>>} \cup {<<h>> : h \in RawHighlights}
                      \cup {<<h1, h2>> : h1 \in RawHighlights, h2 \in RawHighlights},
        sel \in {None, Some("a"), Some("missing")} }

InitLoad ==
    /\ project = ProjectState("Test Project")
    /\ disk \in {Some(doc) : doc \in DocInputs}
    /\ result = NoResult
    /\ before = project
    /\ inflight = <<>>

NextLoad == LoadProjectState

SpecLoad == InitLoad /\ [][NextLoad]_vars

(***************************************************************************)
(* Claims about loading, checked under SpecLoad.                           *)
(***************************************************************************)
\* C11: deserializing a project document re-validates all invariants of the
\* data model (every TimeRange has start >= 0 and end > start, a set
\* selected_highlight_id refers to an existing highlight, highlight ids are
\* unique) and fails the whole load on any violation: no ProjectState is
\* produced from a document that violates one of them.
C11_LoadRevalidates ==
    (result.op = "load" /\ result.ret # None)
        => LET doc == disk[1]
           IN  /\ \A i \in 1..Len(doc.highlights) :
                      /\ doc.highlights[i].time_range.start >= 0
                      /\ doc.highlights[i].time_range.end
                             > doc.highlights[i].time_range.start
               /\ doc.selected_highlight_id # None
                      => IdCount(doc.highlights, doc.selected_highlight_id[1]) > 0
               /\ \A i, j \in 1..Len(doc.highlights) :
                      doc.highlights[i].id = doc.highlights[j].id => i = j

(***************************************************************************)
(* Insertion order, checked under Spec.                                    *)
(***************************************************************************)
\* C12: add_highlight(h) appends h at the end of highlights and changes
\* nothing else; remove_highlight takes one entry out and keeps the others
\* in their order, so after any sequence of the two the remaining
\* highlights appear in the order in which they were added.
C12_InsertionOrder ==
    /\ result.op = "add_highlight"
          => /\ Len(project.highlights) = Len(before.highlights) + 1
             /\ project.highlights[Len(project.highlights)] = result.arg
             /\ \A i \in 1..Len(before.highlights) :
                    project.highlights[i] = before.highlights[i]
             /\ project.project_name = before.project_name
             /\ project.video_file = before.video_file
             /\ project.selected_highlight_id = before.selected_highlight_id
             /\ project.export_settings = before.export_settings
    /\ result.op = "remove_highlight"
          => \/ project.highlights = before.highlights
             \/ \E i \in 1..Len(before.highlights) :
                   /\ Len(project.highlights) = Len(before.highlights) - 1
                   /\ \A j \in 1..(i - 1) : project.highlights[j] = before.highlights[j]
                   /\ \A j \in i..Len(project.highlights) :
                          project.highlights[j] = before.highlights[j + 1]

\* a highlight was added behind another one, on a project with a video and
\* a selection
C12_Witness ==
    /\ result.op = "add_highlight"
    /\ Len(before.highlights) = 1
    /\ before.highlights[1] # result.arg
    /\ before.video_file # None
    /\ before.selected_highlight_id # None
    /\ project.highlights = <<before.highlights[1], result.arg>>

(***************************************************************************)
(* The batch import, checked under SpecUI.                                 *)
(***************************************************************************)
\* C13: /import/highlights is all-or-nothing for the persisted project: if
\* any entry of the batch fails highlight validation the request returns an
\* error and the persisted document is unchanged; if all entries are valid,
\* the persisted highlights afterwards are the previous list followed by
\* the batch in submitted order.
C13_ImportAllOrNothing ==
    result.op = "/import/highlights"
        => LET batch == result.args
               prev  == DocHighlights(before)
           IN  IF \E k \in 1..Len(batch) :
                     ~(/\ batch[k].time_range.start >= 0
                       /\ batch[k].time_range.end > batch[k].time_range.start)
               THEN /\ result.status = 400
                    /\ disk = before
               ELSE /\ result.status = 200
                    /\ disk # None
                    /\ Len(disk[1].highlights) = Len(prev) + Len(batch)
                    /\ \A i \in 1..Len(prev) : disk[1].highlights[i] = prev[i]
                    /\ \A k \in 1..Len(batch) :
                          /\ disk[1].highlights[Len(prev) + k].id = batch[k].id
                          /\ disk[1].highlights[Len(prev) + k].name = batch[k].name
                          /\ disk[1].highlights[Len(prev) + k].time_range
                                 = batch[k].time_range

\* a batch whose second entry is invalid was refused and its valid first
\* entry did not reach the file
C13_Witness ==
    /\ result.op = "/import/highlights"
    /\ result.status = 400
    /\ Len(result.args) = 2
    /\ result.args[1].name = "Jab"
    /\ result.args[2].name = "Bad"
    /\ before # None
    /\ disk = before

(***************************************************************************)
(* Web requests handled concurrently (app.run serves each request on its   *)
(* own thread).  A request reads the file once (load_project_state) and,   *)
(* unless it answers with an error, saves once (save_project_state); what  *)
(* lies between works on the request's own loaded object.  The save is two *)
(* steps: open(PROJECT_STATE_PATH, 'w') empties the file, and json.dump    *)
(* with the close of the file writes the text from position 0.  Here       *)
(* disk = None is a file load_project_state returns None for: an empty     *)
(* file, or a text that is not JSON.                                       *)
(***************************************************************************)
MaxRequests == 2

Request(kind, payload) == [kind |-> kind, payload |-> payload]

RequestInputs ==
    { Request("/import/video", Some("v1.mp4")),
      Request("/import/highlights",
              <<[id |-> "a", name |-> "Jab", time_range |-> [start |-> 1, end |-> 3]]>>),
      Request("/import/highlights",
              <<[id |-> "b", name |-> "Cross", time_range |-> [start |-> 0, end |-> 2]]>>),
      Request("/import/highlights",
              <<[id |-> "a", name |-> "Jab", time_range |-> [start |-> 1, end |-> 3]],
                [id |-> "b", name |-> "Bad", time_range |-> [start |-> 2, end |-> 1]]>>),
      Request("/select", Some("a")),
      Request("/update-range", <<Some(0), Some(2)>>),
      Request("/nudge", None) }

Answer(status, save) == [status |-> status, save |-> save]

\* a route up to its save: the status it answers with and, when it goes on
\* to save, the object it hands to save_project_state
Handle(req, file) ==
    CASE req.kind = "/import/video" ->
            IF ~Truthy(req.payload)
            THEN Answer(400, None)
            ELSE Answer(200, Some([LoadOrNew(file) EXCEPT
                                      !.video_file = Some(VideoFile(req.payload[1]))]))
      [] req.kind = "/import/highlights" ->
            IF ImportLoop(LoadOrNew(file), req.payload) = None
            THEN Answer(400, None)
            ELSE Answer(200, ImportLoop(LoadOrNew(file), req.payload))
      [] req.kind = "/select" ->
            IF ~Truthy(req.payload)
            THEN Answer(400, None)
            ELSE IF load_project_state(file) = None
            THEN Answer(404, None)
            ELSE IF FirstIndex(load_project_state(file)[1].highlights, req.payload[1]) = 0
            THEN Answer(404, None)
            ELSE Answer(200, Some([load_project_state(file)[1] EXCEPT
                                      !.selected_highlight_id = req.payload]))
      [] req.kind = "/update-range" ->
            IF req.payload[1] = None \/ req.payload[2] = None
            THEN Answer(400, None)
            ELSE IF load_project_state(file) = None
            THEN Answer(404, None)
            ELSE IF get_selected_highlight(load_project_state(file)[1]) = None
            THEN Answer(400, None)
            ELSE IF TimeRange(req.payload[1][1], req.payload[2][1]) = None
            THEN Answer(400, None)
            ELSE Answer(200, Some(SetSelectedRange(
                                      load_project_state(file)[1],
                                      TimeRange(req.payload[1][1], req.payload[2][1])[1])))
      [] req.kind = "/nudge" ->
            IF load_project_state(file) = None
            THEN Answer(404, None)
            ELSE IF get_selected_highlight(load_project_state(file)[1]) = None
            THEN Answer(400, None)
            ELSE LET p == load_project_state(file)[1]
                     r == NudgedRange(get_selected_highlight(p)[1],
                                      NudgeOffset(req.payload))
                 IN  IF r = None
                     THEN Answer(400, None)
                     ELSE Answer(200, Some(SetSelectedRange(p, r[1])))

Requests == 1..MaxRequests

\* inflight.req[r]: the request; .pc[r]: "start", "loaded" (between its load
\* and its save), "opened" (it has opened the file for writing) or "done";
\* .local[r]: the object it will save; .status[r]: the status it answered
\* with (0: none yet); .length: the number of characters in the file;
\* .overlapped: some request loaded the file between another request's load
\* and the end of its save
InitConcurrent ==
    /\ project = ProjectState("Test Project")
    /\ disk \in {save_project_state(p) : p \in SavedProjects}
    /\ result = NoResult
    /\ before = disk
    /\ inflight \in [req : [Requests -> RequestInputs],
                     pc : {[r \in Requests |-> "start"]},
                     local : {[r \in Requests |-> None]},
                     status : {[r \in Requests |-> 0]},
                     length : {json_size(disk[1])},
                     overlapped : {FALSE}]

\* the request reads the file and works on what it loaded
ReqLoad(r) ==
    /\ inflight.pc[r] = "start"
    /\ LET a == Handle(inflight.req[r], disk)
       IN  inflight' =
             [inflight EXCEPT
                !.pc[r] = IF a.save = None THEN "done" ELSE "loaded",
                !.local[r] = a.save,
                !.status[r] = IF a.save = None THEN a.status ELSE 0,
                !.overlapped = @ \/ \E o \in Requests \ {r} :
                                         inflight.pc[o] \in {"loaded", "opened"}]
    /\ UNCHANGED <<project, disk, result, before>>

\* open(PROJECT_STATE_PATH, 'w'): the file is emptied
ReqOpen(r) ==
    /\ inflight.pc[r] = "loaded"
    /\ disk' = None
    /\ inflight' = [inflight EXCEPT !.pc[r] = "opened", !.length = 0]
    /\ UNCHANGED <<project, result, before>>

\* json.dump and the close of the file: the text is written from position 0
\* over what the file holds by then, and the request answers
ReqWrite(r) ==
    /\ inflight.pc[r] = "opened"
    /\ LET doc  == save_project_state(inflight.local[r][1])[1]
           file == WriteOver(doc, json_size(doc), inflight.length)
       IN  /\ disk' = file.doc
           /\ inflight' = [inflight EXCEPT !.pc[r] = "done", !.status[r] = 200,
                                           !.length = file.length]
    /\ UNCHANGED <<project, result, before>>

NextConcurrent ==
    \/ \E r \in Requests : ReqLoad(r)
    \/ \E r \in Requests : ReqOpen(r)
    \/ \E r \in Requests : ReqWrite(r)

SpecConcurrent == InitConcurrent /\ [][NextConcurrent]_vars

(***************************************************************************)
(* Claims about concurrent requests, checked under SpecConcurrent.         *)
(***************************************************************************)
AllDone == \A r \in Requests : inflight.pc[r] = "done"

\* a highlight is recognised by its id and name (the routes may change its
\* time range)
KeyCount(hs, id, name) ==
    Cardinality({i \in 1..Len(hs) : hs[i].id = id /\ hs[i].name = name})

\* how many highlights with this id and name the requests 1..n that
\* reported success added
RECURSIVE ImportedCount(_, _, _)
ImportedCount(n, id, name) ==
    IF n = 0
    THEN 0
    ELSE ImportedCount(n - 1, id, name)
         + (IF /\ inflight.req[n].kind = "/import/highlights"
               /\ inflight.status[n] = 200
            THEN KeyCount(inflight.req[n].payload, id, name)
            ELSE 0)

NoHighlightLost ==
    /\ disk # None
    /\ \A id \in {"", "a", "b"}, name \in {"Jab", "Feint", "Cross", "Bad"} :
          KeyCount(disk[1].highlights, id, name)
              >= KeyCount(before[1].highlights, id, name)
                 + ImportedCount(MaxRequests, id, name)

\* C14 as stated: no persisted highlight is lost through the HTTP routes,
\* also when the load, modify and save steps of the requests interleave:
\* once all requests have completed, every highlight that was in the
\* persisted document or was added by a request that reported success is
\* in the persisted document.
C14_NoHighlightLost == AllDone => NoHighlightLost

\* C14, amended: the same, for requests handled one at a time (no request
\* loads the file between another request's load and the end of its save).
C14_NoHighlightLostSerial == (AllDone /\ ~inflight.overlapped) => NoHighlightLost

\* two imports were handled one after the other on a project that had a
\* highlight, and all three highlights are in the file
C14_Witness ==
    /\ AllDone
    /\ ~inflight.overlapped
    /\ \A r \in Requests : r <= 2 =>
          /\ inflight.req[r].kind = "/import/highlights"
          /\ inflight.status[r] = 200
    /\ inflight.req[1] # inflight.req[2]
    /\ Len(before[1].highlights) = 1
    /\ Len(disk[1].highlights) >= 3
    /\ NoHighlightLost

====
